---- MODULE Spec2Model ----
(***************************************************************************)
(* Verification model of the Ariadne agent tools of zeroclaw:              *)
(*   - StateOverrideTool (src/tools/state_override.py): the authenticated  *)
(*     override gateway and its audit log (ariadne/memory/notes.md);       *)
(*   - detect_mode_switch (src/validate_agent.py): the mode classifier;    *)
(*   - ProposalGeneratorTool and ValidationWorkflowTool                    *)
(*     (src/tools/proposal_generator.py, validation_workflow.py): the      *)
(*     proposal pipeline;                                                  *)
(*   - ConstraintAuditTool and SystemDiagnosticsTool                       *)
(*     (src/tools/constraint_audit.py, system_diagnostics.py): the         *)
(*     constraint audit and the diagnostics snapshot.                      *)
(*                                                                         *)
(* Text is modelled as it is in the program: a string is a sequence of     *)
(* one-character strings, the audit log is a sequence of lines (every line *)
(* of the file ends in "\n"), and a line is a sequence of string pieces.   *)
(***************************************************************************)
EXTENDS Integers, Sequences, FiniteSets, TLC

VARIABLES
    env,        \* os.environ entry ARIADNE_ADMIN_TOKEN_HASH: [set, value]
    fsOK,       \* TRUE iff ariadne/memory can be created and notes.md opened for append
    now,        \* the wall clock read by datetime.now(timezone.utc)
    notes,      \* content of ariadne/memory/notes.md, a sequence of lines
    ret,        \* how the most recent run() call ended: [kind, status, message]
    last,       \* the arguments of the most recent run() call: [target, token]
    calls,      \* number of run() calls made so far
    validCalls, \* number of those whose target_state was in _VALID_STATES
    accepted,   \* the tokens some earlier call has answered "ok" to
    pc,         \* per thread: position inside run() (concurrent specification)
    frame,      \* per thread: the locals of run() / _audit()
    text,       \* the user input passed to detect_mode_switch, as the pieces received
    detected,   \* TRUE iff detect_mode_switch has been applied to text
    current,    \* the mode passed to the most recent detect_mode_switch call
    mode,       \* the caller's mode: what the most recent call returned
    description,\* the task description passed to ProposalGeneratorTool.run, as pieces
    generated,  \* how the generator call on it ended: "none", "ok", "ValueError"
    proposal,   \* the proposal dict at hand (generated, or built by the caller)
    report,     \* what ValidationWorkflowTool.run returned for it, or NoReport
    agentYaml,  \* the file agents/ariadne.yaml of the workspace: [kind, content]
    guardrailsTs, \* the file ai/ariadne/guardrails.ts of the workspace: [kind, content]
    auditReport,  \* what ConstraintAuditTool.run returned last, or NoAudit
    diagnostics   \* what SystemDiagnosticsTool.run returned last, or NoDiagnostics

ovVars   == <<env, fsOK, now, notes, ret, last, calls, validCalls, accepted>>
thrVars  == <<pc, frame>>
detVars  == <<text, detected, current, mode>>
propVars == <<description, generated, proposal, report>>
audVars  == <<agentYaml, guardrailsTs, auditReport, diagnostics>>
vars     == <<env, fsOK, now, notes, ret, last, calls, validCalls, accepted,
              pc, frame, text, detected, current, mode,
              description, generated, proposal, report,
              agentYaml, guardrailsTs, auditReport, diagnostics>>

(***************************************************************************)
(* Bounds of the model.                                                    *)
(***************************************************************************)
MaxCalls == 2
MaxClock == 1
NumThreads == 2
MaxFragments == 3
MaxPhases == 2
MaxDescPieces == 3
MaxYamlLines == 4
MaxGuardrailsLines == 1

(***************************************************************************)
(* Strings.                                                                *)
(***************************************************************************)
UpperAlphabet ==
    <<"A","B","C","D","E","F","G","H","I","J","K","L","M",
      "N","O","P","Q","R","S","T","U","V","W","X","Y","Z">>
LowerAlphabet ==
    <<"a","b","c","d","e","f","g","h","i","j","k","l","m",
      "n","o","p","q","r","s","t","u","v","w","x","y","z">>

\* str.lower() on one character.
LowerChar(c) ==
    IF \E i \in DOMAIN UpperAlphabet : UpperAlphabet[i] = c
    THEN LowerAlphabet[CHOOSE i \in DOMAIN UpperAlphabet : UpperAlphabet[i] = c]
    ELSE c

\* str.lower()
Lower(s) == IF s = <<>> THEN <<>> ELSE [i \in 1..Len(s) |-> LowerChar(s[i])]

\* `sub in s` for Python strings: substring containment.
Contains(sub, s) ==
    \E i \in 0..(Len(s) - Len(sub)) :
        \A j \in 1..Len(sub) : s[i + j] = sub[j]

(***************************************************************************)
(* StateOverrideTool                                                       *)
(***************************************************************************)
\* The three modes (OPERATIONAL, COMPANION, ADMINISTRATIVE).
Modes == {"operational", "companion", "administrative"}

\* _VALID_STATES
ValidStatesWithUnknown ==
    {"operational", "companion", "administrative", "unknown_state"}
VALID_STATES == {"operational", "companion", "administrative"}

\* The target_state arguments the model passes to run().
Targets == VALID_STATES \cup {"unknown_state", "Operational"}

\* The auth_token arguments the model passes to run().
Tokens == {"zeroclaw_test_token", "wrong-token", ""}

\* hashlib.sha256(token.encode()).hexdigest(): lower-case hex; the model keeps
\* the first eight digits of the real digests.
Sha256Hex(token) ==
    CASE token = "zeroclaw_test_token" -> <<"9","8","8","2","4","9","f","a">>
      [] token = "wrong-token"         -> <<"5","6","4","5","a","7","5","8">>
      [] token = ""                    -> <<"e","3","b","0","c","4","4","2">>

\* Values an operator may export as ARIADNE_ADMIN_TOKEN_HASH.
HashConfigs ==
    { <<>>,
      <<"9","8","8","2","4","9","f","a">>,
      <<"9","8","8","2","4","9","F","A">> }

EnvUnset == [set |-> FALSE, value |-> <<>>]
EnvStates == {EnvUnset} \cup {[set |-> TRUE, value |-> v] : v \in HashConfigs}

\* os.environ.get(_TOKEN_HASH_ENV_VAR, "")
EnvGet(e) == IF e.set THEN e.value ELSE <<>>

\* hmac.compare_digest(a, b) on two ASCII strings
CompareDigest(a, b) == a = b

\* StateOverrideTool._validate_token
ValidateTokenFailOpen(token, e) ==
    LET expected_hash == EnvGet(e) IN
    IF expected_hash = <<>> THEN TRUE
    ELSE CompareDigest(Sha256Hex(token), Lower(expected_hash))
ValidateToken(token, e) ==
    LET expected_hash == EnvGet(e) IN
    IF expected_hash = <<>> THEN FALSE
    ELSE CompareDigest(Sha256Hex(token), Lower(expected_hash))

(***************************************************************************)
(* The audit log file ariadne/memory/notes.md                              *)
(***************************************************************************)
BlankLine == <<>>
SeparatorLine == <<"---">>

\* datetime.isoformat() of a clock reading, and its inverse.
IsoFormat(ts) == ToString(ts)
ParseIso(s) == CHOOSE n \in 0..(MaxClock + 1) : ToString(n) = s

\* The entry text built by _audit, as the lines it adds to the file:
\*   "\n\n---\n**{ts}** [admin-audit]\n\n"
\*   "EVENT: {event}  \nTARGET_STATE: {target_state}  \nOUTCOME: {outcome}\n"
EntryWithoutSeparator(ts, event, target_state, outcome) ==
    << BlankLine,
       BlankLine,
       <<"**", IsoFormat(ts), "** [admin-audit]">>,
       BlankLine,
       <<"EVENT: ", event, "  ">>,
       <<"TARGET_STATE: ", target_state, "  ">>,
       <<"OUTCOME: ", outcome>> >>
Entry(ts, event, target_state, outcome) ==
    << BlankLine,
       BlankLine,
       SeparatorLine,
       <<"**", IsoFormat(ts), "** [admin-audit]">>,
       BlankLine,
       <<"EVENT: ", event, "  ">>,
       <<"TARGET_STATE: ", target_state, "  ">>,
       <<"OUTCOME: ", outcome>> >>

\* open(notes_path, "a").write(entry): the file after the write.
TruncatingWrite(content, entry) == entry
AppendToFile(content, entry) == content \o entry

\* re.split(r"\n---\n", content): a line "---" is a boundary when a newline
\* precedes it (it is not the first line of the file) and that newline was not
\* consumed by the boundary just before it.
RECURSIVE SplitFrom(_, _, _, _)
SplitFrom(lines, i, cur, afterSep) ==
    IF i > Len(lines) THEN <<cur>>
    ELSE IF lines[i] = SeparatorLine /\ i > 1 /\ ~afterSep
         THEN <<cur>> \o SplitFrom(lines, i + 1, <<>>, TRUE)
         ELSE SplitFrom(lines, i + 1, Append(cur, lines[i]), FALSE)

Sections(content) == SplitFrom(content, 1, <<>>, FALSE)

\* s.strip() on a section, by lines: leading and trailing blank lines go.
RECURSIVE StripLeft(_)
StripLeft(section) ==
    IF section # <<>> /\ Head(section) = BlankLine
    THEN StripLeft(Tail(section))
    ELSE section
RECURSIVE StripRight(_)
StripRight(section) ==
    IF section # <<>> /\ section[Len(section)] = BlankLine
    THEN StripRight(SubSeq(section, 1, Len(section) - 1))
    ELSE section
Strip(section) == StripRight(StripLeft(section))

\* The records of the log: its stripped sections, the empty ones left out.
StrippedSections(content) ==
    LET sections == Sections(content) IN
    [i \in 1..Len(sections) |-> Strip(sections[i])]
IsRecord(section) == section # <<>>
Records(content) == SelectSeq(StrippedSections(content), IsRecord)

\* str.lower() on a piece of the log text (the pieces _audit writes that
\* hold upper-case letters; every other piece is its own lower case).
LowerPiece(piece) ==
    CASE piece = "OVERRIDE_APPLIED"  -> "override_applied"
      [] piece = "OVERRIDE_REJECTED" -> "override_rejected"
      [] piece = "EVENT: "           -> "event: "
      [] piece = "TARGET_STATE: "    -> "target_state: "
      [] piece = "OUTCOME: "         -> "outcome: "
      [] OTHER                       -> piece

\* `query in s.lower()` for a query that is one word of the log text
SectionContains(section, query) ==
    \E i \in DOMAIN section :
        \E j \in DOMAIN section[i] : LowerPiece(section[i][j]) = query

\* MemoryQueryTool.run on the log: query.strip().lower(), then _search:
\* [s.strip() for s in sections if query in s.lower()]
Search(content, query) ==
    LET sections == SelectSeq(Sections(content),
                              LAMBDA s : SectionContains(s, LowerPiece(query)))
    IN [i \in 1..Len(sections) |-> Strip(sections[i])]

\* Fields of a record written by _audit.
FieldOf(section, key) ==
    LET i == CHOOSE k \in DOMAIN section :
                 Len(section[k]) >= 2 /\ section[k][1] = key
    IN section[i][2]
HasField(section, key) ==
    \E k \in DOMAIN section : Len(section[k]) >= 2 /\ section[k][1] = key
RecordEvent(section) == FieldOf(section, "EVENT: ")
RecordTarget(section) == FieldOf(section, "TARGET_STATE: ")
RecordOutcome(section) == FieldOf(section, "OUTCOME: ")
RecordTimestamp(section) == ParseIso(FieldOf(section, "**"))
IsAuditRecord(section) ==
    /\ HasField(section, "**")
    /\ HasField(section, "EVENT: ")
    /\ HasField(section, "TARGET_STATE: ")
    /\ HasField(section, "OUTCOME: ")

(***************************************************************************)
(* StateOverrideTool.run                                                   *)
(***************************************************************************)
Returned(status, message) == [kind |-> "return", status |-> status, message |-> message]
Raised(exception) == [kind |-> "raise", status |-> "none", message |-> exception]
NoCall == [kind |-> "none", status |-> "none", message |-> "none"]

\* First test of run(): target_state not in _VALID_STATES.
AnyStateIsValid(target_state) == TRUE
IsValidState(target_state) == target_state \in VALID_STATES

\* The event and outcome run() hands to _audit, and the dict it returns after.
AuditEventAlwaysRejected(authorized) == "OVERRIDE_REJECTED"
AuditEvent(authorized) ==
    IF authorized THEN "OVERRIDE_APPLIED" ELSE "OVERRIDE_REJECTED"
AuditOutcomeAlwaysAuthorized(authorized) == "authorized"
AuditOutcome(authorized) ==
    IF authorized THEN "authorized" ELSE "invalid token"
RunResult(authorized) ==
    IF authorized
    THEN Returned("ok", "State override authorized and logged.")
    ELSE Returned("error", "Authentication failed. Override rejected.")
UnknownState == Returned("error", "Unknown state")

\* run(target_state, auth_token) as one step: what it returns (or raises) and
\* the log it leaves, from the environment, the clock and the file system.
RunEffectLockout(target_state, auth_token, e, clock, content, writable) ==
    IF ~IsValidState(target_state)
    THEN [ret |-> UnknownState, notes |-> content]
    ELSE LET records    == Records(content)
             locked     == \E k \in DOMAIN records :
                               RecordEvent(records[k]) = "OVERRIDE_REJECTED"
             authorized == ~locked /\ ValidateToken(auth_token, e)
         IN
         IF writable
         THEN [ret   |-> RunResult(authorized),
               notes |-> AppendToFile(content,
                             Entry(clock, AuditEvent(authorized), target_state,
                                   AuditOutcome(authorized)))]
         ELSE [ret |-> Raised("OSError"), notes |-> content]
RunEffectSwallowsOSError(target_state, auth_token, e, clock, content, writable) ==
    IF ~IsValidState(target_state)
    THEN [ret |-> UnknownState, notes |-> content]
    ELSE LET authorized == ValidateToken(auth_token, e) IN
         IF writable
         THEN [ret   |-> RunResult(authorized),
               notes |-> AppendToFile(content,
                             Entry(clock, AuditEvent(authorized), target_state,
                                   AuditOutcome(authorized)))]
         ELSE [ret |-> RunResult(authorized), notes |-> content]
RunEffect(target_state, auth_token, e, clock, content, writable) ==
    IF ~IsValidState(target_state)
    THEN [ret |-> UnknownState, notes |-> content]
    ELSE LET authorized == ValidateToken(auth_token, e) IN
         IF writable
         THEN [ret   |-> RunResult(authorized),
               notes |-> AppendToFile(content,
                             Entry(clock, AuditEvent(authorized), target_state,
                                   AuditOutcome(authorized)))]
         ELSE \* mkdir() or open() raises OSError inside _audit; run() has no handler
              [ret |-> Raised("OSError"), notes |-> content]

NoLast == [target |-> "none", token |-> "none"]

Run(target_state, auth_token) ==
    LET eff == RunEffect(target_state, auth_token, env, now, notes, fsOK) IN
    /\ calls < MaxCalls
    /\ calls' = calls + 1
    /\ validCalls' = IF target_state \in Modes THEN validCalls + 1 ELSE validCalls
    /\ ret' = eff.ret
    /\ notes' = eff.notes
    /\ last' = [target |-> target_state, token |-> auth_token]
    /\ accepted' = IF eff.ret.status = "ok" THEN accepted \cup {auth_token} ELSE accepted
    /\ UNCHANGED <<env, fsOK, now, thrVars, detVars, propVars, audVars>>

\* The deployment exports, changes or removes ARIADNE_ADMIN_TOKEN_HASH.
SetEnv(e) ==
    /\ e # env
    /\ env' = e
    /\ UNCHANGED <<fsOK, now, notes, ret, last, calls, validCalls, accepted,
                   thrVars, detVars, propVars, audVars>>

\* The wall clock advances.
Tick ==
    /\ now < MaxClock
    /\ now' = now + 1
    /\ UNCHANGED <<env, fsOK, notes, ret, last, calls, validCalls, accepted,
                   thrVars, detVars, propVars, audVars>>

\* The wall clock is set back (NTP step, operator).
ClockSetBack ==
    /\ now > 0
    /\ now' = now - 1
    /\ UNCHANGED <<env, fsOK, notes, ret, last, calls, validCalls, accepted,
                   thrVars, detVars, propVars, audVars>>

\* The log directory becomes unusable (read-only or full disk, a file named
\* "ariadne" in the way), or usable again.
FsBreak ==
    /\ fsOK
    /\ fsOK' = FALSE
    /\ UNCHANGED <<env, now, notes, ret, last, calls, validCalls, accepted,
                   thrVars, detVars, propVars, audVars>>
FsRepair ==
    /\ ~fsOK
    /\ fsOK' = TRUE
    /\ UNCHANGED <<env, now, notes, ret, last, calls, validCalls, accepted,
                   thrVars, detVars, propVars, audVars>>

Threads == 1..NumThreads
IdleFrame == [target |-> "none", token |-> "none", authorized |-> FALSE, ts |-> 0]
ThreadsIdle ==
    /\ pc = [t \in Threads |-> "idle"]
    /\ frame = [t \in Threads |-> IdleFrame]
NoReport == [valid |-> FALSE, errors |-> <<>>, warnings |-> <<>>, validated_at |-> ""]
ProposalIdle ==
    /\ description = <<>>
    /\ generated = "none"
    /\ proposal = <<>>
    /\ report = NoReport
\* No file of the workspace configuration and no audit or snapshot yet.
AbsentFile == [kind |-> "absent", content |-> <<>>]
NoAudit == [timestamp |-> "", constraints |-> <<>>, drift_detected |-> FALSE,
            summary |-> <<>>]
NoDiagnostics == [timestamp |-> "", state_stability |-> "", constraints |-> <<>>]
AuditIdle ==
    /\ agentYaml = AbsentFile
    /\ guardrailsTs = AbsentFile
    /\ auditReport = NoAudit
    /\ diagnostics = NoDiagnostics
DetectIdle ==
    /\ text = <<>>
    /\ detected = FALSE
    /\ current = "operational"
    /\ mode = "operational"

OverrideInit ==
    /\ env \in EnvStates
    /\ fsOK = TRUE
    /\ now = 0
    /\ notes = <<>>
    /\ ret = NoCall
    /\ last = NoLast
    /\ calls = 0
    /\ validCalls = 0
    /\ accepted = {}

(***************************************************************************)
(* Spec: calls of run() one after another, on a working file system.       *)
(***************************************************************************)
Init == OverrideInit /\ ThreadsIdle /\ DetectIdle /\ ProposalIdle /\ AuditIdle

Next ==
    \/ \E target_state \in Targets, auth_token \in Tokens : Run(target_state, auth_token)
    \/ \E e \in EnvStates : SetEnv(e)
    \/ Tick
    \/ ClockSetBack

Spec == Init /\ [][Next]_vars

(***************************************************************************)
(* SpecIO: the same, on a file system that can fail.                       *)
(***************************************************************************)
NextIO ==
    \/ \E target_state \in Targets, auth_token \in Tokens : Run(target_state, auth_token)
    \/ \E e \in EnvStates : SetEnv(e)
    \/ Tick
    \/ ClockSetBack
    \/ FsBreak
    \/ FsRepair

SpecIO == Init /\ [][NextIO]_vars

(***************************************************************************)
(* SpecThreads: run() called from several threads on the same workspace.   *)
(* run() holds no lock, so the threads interleave between the statements   *)
(* of run() and _audit().  The write itself is one write(2) on a file      *)
(* opened with O_APPEND, taken as atomic.                                  *)
(***************************************************************************)
\* Lines 53-60: the state test and _validate_token; an invalid state returns.
ThreadCall(t, target_state, auth_token) ==
    /\ pc[t] = "idle"
    /\ calls < MaxCalls
    /\ calls' = calls + 1
    /\ validCalls' = IF target_state \in Modes THEN validCalls + 1 ELSE validCalls
    /\ IF ~IsValidState(target_state)
       THEN /\ ret' = UnknownState
            /\ last' = [target |-> target_state, token |-> auth_token]
            /\ UNCHANGED <<pc, frame>>
       ELSE /\ frame' = [frame EXCEPT ![t] =
                            [target |-> target_state, token |-> auth_token,
                             authorized |-> ValidateToken(auth_token, env), ts |-> 0]]
            /\ pc' = [pc EXCEPT ![t] = "audit"]
            /\ UNCHANGED <<ret, last>>
    /\ UNCHANGED <<env, fsOK, now, notes, accepted, detVars, propVars, audVars>>

\* Lines 88-91: notes_dir.mkdir(...), then ts = datetime.now(timezone.utc).
ThreadStamp(t) ==
    /\ pc[t] = "audit"
    /\ IF fsOK
       THEN /\ frame' = [frame EXCEPT ![t].ts = now]
            /\ pc' = [pc EXCEPT ![t] = "write"]
            /\ UNCHANGED <<ret, last>>
       ELSE /\ ret' = Raised("OSError")
            /\ last' = [target |-> frame[t].target, token |-> frame[t].token]
            /\ frame' = [frame EXCEPT ![t] = IdleFrame]
            /\ pc' = [pc EXCEPT ![t] = "idle"]
    /\ UNCHANGED <<env, fsOK, now, notes, calls, validCalls, accepted, detVars, propVars, audVars>>

\* Lines 92-97: the entry is built from ts and written.
ThreadWrite(t) ==
    /\ pc[t] = "write"
    /\ IF fsOK
       THEN /\ notes' = AppendToFile(notes,
                            Entry(frame[t].ts, AuditEvent(frame[t].authorized),
                                  frame[t].target, AuditOutcome(frame[t].authorized)))
            /\ pc' = [pc EXCEPT ![t] = "return"]
            /\ UNCHANGED <<ret, last, frame>>
       ELSE /\ ret' = Raised("OSError")
            /\ last' = [target |-> frame[t].target, token |-> frame[t].token]
            /\ frame' = [frame EXCEPT ![t] = IdleFrame]
            /\ pc' = [pc EXCEPT ![t] = "idle"]
            /\ UNCHANGED notes
    /\ UNCHANGED <<env, fsOK, now, calls, validCalls, accepted, detVars, propVars, audVars>>

\* Lines 62-65 and 68-71: the dict is returned.
ThreadReturn(t) ==
    /\ pc[t] = "return"
    /\ ret' = RunResult(frame[t].authorized)
    /\ last' = [target |-> frame[t].target, token |-> frame[t].token]
    /\ accepted' = IF frame[t].authorized
                   THEN accepted \cup {frame[t].token} ELSE accepted
    /\ frame' = [frame EXCEPT ![t] = IdleFrame]
    /\ pc' = [pc EXCEPT ![t] = "idle"]
    /\ UNCHANGED <<env, fsOK, now, notes, calls, validCalls, detVars, propVars, audVars>>

NextThreads ==
    \/ \E t \in Threads, target_state \in Targets, auth_token \in Tokens :
           ThreadCall(t, target_state, auth_token)
    \/ \E t \in Threads : ThreadStamp(t)
    \/ \E t \in Threads : ThreadWrite(t)
    \/ \E t \in Threads : ThreadReturn(t)
    \/ Tick

SpecThreads == Init /\ [][NextThreads]_vars

(***************************************************************************)
(* detect_mode_switch (validate_agent.py)                                  *)
(***************************************************************************)
OPERATIONAL == "operational"
COMPANION == "companion"
ADMINISTRATIVE == "administrative"

COMPANION_PHRASES ==
    << <<"a","r","i","a","d","n","e",","," ","c","o","m","p","a","n","i","o","n"," ","m","o","d","e">>,
       <<"s","w","i","t","c","h"," ","t","o"," ","c","o","m","p","a","n","i","o","n">> >>
ADMINISTRATIVE_PHRASES ==
    << <<"e","n","t","e","r"," ","a","d","m","i","n","i","s","t","r","a","t","i","v","e"," ","m","o","d","e">>,
       <<"a","r","i","a","d","n","e",","," ","a","d","m","i","n"," ","m","o","d","e">> >>
TASK_INDICATORS ==
    << <<"c","o","d","e">>, <<"d","e","b","u","g">>,
       <<"a","n","a","l","y","z","e">>, <<"p","l","a","n">>,
       <<"b","u","d","g","e","t">>,
       <<"a","r","c","h","i","t","e","c","t","u","r","e">>,
       <<"r","e","f","a","c","t","o","r">>,
       <<"p","r","o","f","i","l","e">>,
       <<"o","p","t","i","m","i","z","e">> >>

\* `phrase in lower` for some phrase of the list
AnyIn(phrases, lower) ==
    \E k \in DOMAIN phrases : Contains(phrases[k], lower)

DetectCompanionFirst(input, cur) ==
    LET lower == Lower(input) IN
    IF AnyIn(COMPANION_PHRASES, lower) THEN COMPANION
    ELSE IF AnyIn(ADMINISTRATIVE_PHRASES, lower) THEN ADMINISTRATIVE
    ELSE IF AnyIn(TASK_INDICATORS, lower) THEN OPERATIONAL
    ELSE cur
DetectNoFallthrough(input, cur) ==
    LET lower == Lower(input) IN
    IF AnyIn(ADMINISTRATIVE_PHRASES, lower) THEN ADMINISTRATIVE
    ELSE IF AnyIn(COMPANION_PHRASES, lower) THEN COMPANION
    ELSE IF AnyIn(TASK_INDICATORS, lower) THEN OPERATIONAL
    ELSE "None"
DetectDefaultOperational(input, cur) ==
    LET lower == Lower(input) IN
    IF AnyIn(ADMINISTRATIVE_PHRASES, lower) THEN ADMINISTRATIVE
    ELSE IF AnyIn(COMPANION_PHRASES, lower) THEN COMPANION
    ELSE OPERATIONAL
DetectTaskFirst(input, cur) ==
    LET lower == Lower(input) IN
    IF AnyIn(ADMINISTRATIVE_PHRASES, lower) THEN ADMINISTRATIVE
    ELSE IF AnyIn(TASK_INDICATORS, lower) THEN OPERATIONAL
    ELSE IF AnyIn(COMPANION_PHRASES, lower) THEN COMPANION
    ELSE cur
detect_mode_switch(input, cur) ==
    LET lower == Lower(input) IN
    IF AnyIn(ADMINISTRATIVE_PHRASES, lower) THEN ADMINISTRATIVE
    ELSE IF AnyIn(COMPANION_PHRASES, lower) THEN COMPANION
    ELSE IF AnyIn(TASK_INDICATORS, lower) THEN OPERATIONAL
    ELSE cur

\* The pieces the model builds input texts from.
Fragments ==
    { <<"E","n","t","e","r"," ","A","d","m","i","n","i","s","t","r","a","t","i","v","e">>,
      <<" ","m","o","d","e">>,
      <<"A","R","I","A","D","N","E",","," ","A","D","M","I","N"," ","M","O","D","E">>,
      <<"A","r","i","a","d","n","e",","," ","c","o","m","p","a","n","i","o","n">>,
      <<"s","w","i","t","c","h"," ","t","o"," ","C","o","m","p","a","n","i","o","n">>,
      <<" ","a","n","d"," ","d","e","b","u","g">>,
      <<"d","e","c","o","d","e">>,
      <<"h","e","l","l","o"," ","t","h","e","r","e">>,
      <<"P","l","a","n"," ">>,
      <<"h","o","w"," ","a","r","e"," ","y","o","u"," ","d","o","i","n","g","?">> }

\* A piece of user input arrives: it starts a new text after a detection,
\* and extends the text being received otherwise.
Receive(f) ==
    /\ IF detected
       THEN text' = <<f>>
       ELSE /\ Len(text) < MaxFragments
            /\ text' = Append(text, f)
    /\ detected' = FALSE
    /\ UNCHANGED <<current, mode, ovVars, thrVars, propVars, audVars>>

\* "".join(pieces)
RECURSIVE Join(_)
Join(pieces) == IF pieces = <<>> THEN <<>> ELSE Head(pieces) \o Join(Tail(pieces))

\* The caller classifies the text and takes the result as its mode.
Detect ==
    /\ ~detected
    /\ detected' = TRUE
    /\ current' = mode
    /\ mode' = detect_mode_switch(Join(text), mode)
    /\ UNCHANGED <<text, ovVars, thrVars, propVars, audVars>>

(***************************************************************************)
(* SpecDetect: a caller that keeps its mode and feeds texts to detect.     *)
(***************************************************************************)
InitDetect ==
    /\ OverrideInit /\ env = EnvUnset
    /\ ThreadsIdle
    /\ ProposalIdle
    /\ AuditIdle
    /\ text = <<>>
    /\ detected = FALSE
    /\ mode \in Modes
    /\ current = mode

NextDetect ==
    \/ \E f \in Fragments : Receive(f)
    \/ Detect

SpecDetect == InitDetect /\ [][NextDetect]_vars

(***************************************************************************)
(* Python values of the proposal schema.  A value carries its type name;   *)
(* a str is a sequence of string pieces (single characters or literal      *)
(* chunks), a list a sequence of values, a dict a function from keys to    *)
(* values.                                                                 *)
(***************************************************************************)
Str(s) == [type |-> "str", v |-> s]
List(items) == [type |-> "list", v |-> items]
Dict(d) == [type |-> "dict", v |-> d]
IntValue == [type |-> "int", v |-> <<"7">>]
NoneValue == [type |-> "NoneType", v |-> <<>>]

\* `not x` for a Python value
Falsy(x) ==
    \/ x.type = "NoneType"
    \/ x.type \in {"str", "list", "dict"} /\ DOMAIN x.v = {}

\* d.get(key, default) on a dict held as a function
Get(d, key, default) == IF key \in DOMAIN d THEN d[key] ELSE default

\* f"{x}" of a value inside a message
Format(x) == IF x.type = "str" THEN x.v ELSE <<x.type>>

(***************************************************************************)
(* ValidationWorkflowTool (validation_workflow.py)                         *)
(***************************************************************************)
\* _REQUIRED_FIELDS, in dict order, and the type each field must have.
REQUIRED_FIELDS == <<"title", "phases", "resources", "validation_gates">>
ExpectedType(field) == IF field = "title" THEN "str" ELSE "list"

\* _PHASE_REQUIRED_KEYS, in sorted() order.
PHASE_REQUIRED_KEYS == <<"name", "outputs", "steps">>

\* One pass of the loop of _check_required_fields: the errors it appends.
FieldErrorsNoEmptyCheck(p, field) ==
    IF field \notin DOMAIN p
    THEN << <<"Missing required field: '", field, "'">> >>
    ELSE IF p[field].type # ExpectedType(field)
    THEN << <<"Field '", field, "' must be ", ExpectedType(field),
              ", got ", p[field].type>> >>
    ELSE <<>>
FieldErrors(p, field) ==
    IF field \notin DOMAIN p
    THEN << <<"Missing required field: '", field, "'">> >>
    ELSE IF p[field].type # ExpectedType(field)
    THEN << <<"Field '", field, "' must be ", ExpectedType(field),
              ", got ", p[field].type>> >>
    ELSE IF ExpectedType(field) \in {"list", "dict"} /\ Falsy(p[field])
    THEN << <<"Field '", field, "' must not be empty">> >>
    ELSE <<>>

\* _check_required_fields
RECURSIVE RequiredFieldErrorsFrom(_, _)
RequiredFieldErrorsFrom(p, k) ==
    IF k > Len(REQUIRED_FIELDS) THEN <<>>
    ELSE FieldErrors(p, REQUIRED_FIELDS[k]) \o RequiredFieldErrorsFrom(p, k + 1)
RequiredFieldErrorsFirstOnly(p) ==
    LET all == RequiredFieldErrorsFrom(p, 1) IN
    IF all = <<>> THEN <<>> ELSE <<all[1]>>
CheckRequiredFields(p) == RequiredFieldErrorsFrom(p, 1)

\* One pass of the loop of _check_phases on phases[i] (i counts from 0).
PhaseErrorsEmptySteps(phase, i) ==
    IF phase.type # "dict"
    THEN << <<"Phase[", ToString(i), "] must be a dict">> >>
    ELSE LET missing == SelectSeq(PHASE_REQUIRED_KEYS,
                                  LAMBDA key : key \notin DOMAIN phase.v) IN
         IF missing # <<>>
         THEN << <<"Phase[", ToString(i), "] missing keys: ">> \o missing >>
         ELSE IF Falsy(phase.v["steps"])
         THEN << <<"Phase[", ToString(i), "] has no steps">> >>
         ELSE <<>>
PhaseErrors(phase, i) ==
    IF phase.type # "dict"
    THEN << <<"Phase[", ToString(i), "] must be a dict">> >>
    ELSE LET missing == SelectSeq(PHASE_REQUIRED_KEYS,
                                  LAMBDA key : key \notin DOMAIN phase.v) IN
         IF missing # <<>>
         THEN << <<"Phase[", ToString(i), "] missing keys: ">> \o missing >>
         ELSE <<>>
PhaseWarnings(phase, i) ==
    IF phase.type # "dict" THEN <<>>
    ELSE IF Falsy(Get(phase.v, "steps", NoneValue))
    THEN << <<"Phase[", ToString(i), "] ('">>
              \o Format(Get(phase.v, "name", Str(<<"?">>)))
              \o <<"') has no steps">> >>
    ELSE <<>>

\* _check_phases: what it appends to errors and to warnings.
RECURSIVE CheckPhasesErrorsFrom(_, _)
CheckPhasesErrorsFrom(phases, k) ==
    IF k > Len(phases) THEN <<>>
    ELSE PhaseErrors(phases[k], k - 1) \o CheckPhasesErrorsFrom(phases, k + 1)
RECURSIVE CheckPhasesWarningsFrom(_, _)
CheckPhasesWarningsFrom(phases, k) ==
    IF k > Len(phases) THEN <<>>
    ELSE PhaseWarnings(phases[k], k - 1) \o CheckPhasesWarningsFrom(phases, k + 1)
CheckPhasesErrors(phases) ==
    IF phases.type # "list" THEN <<>> ELSE CheckPhasesErrorsFrom(phases.v, 1)
CheckPhasesWarnings(phases) ==
    IF phases.type # "list" THEN <<>> ELSE CheckPhasesWarningsFrom(phases.v, 1)

\* _check_resources
NoResourcesWarning == <<"No resources listed; verify no dependencies are missing">>
CheckResources(resources) ==
    IF resources.type # "list" THEN <<>>
    ELSE IF Falsy(resources) THEN <<NoResourcesWarning>>
    ELSE <<>>

\* _check_validation_gates
NoGatesWarning == <<"No validation gates defined; consider adding test criteria">>
CheckValidationGates(gates) ==
    IF gates.type # "list" THEN <<>>
    ELSE IF Falsy(gates) THEN <<NoGatesWarning>>
    ELSE <<>>

\* "valid": len(errors) == 0
ValidOnlyWithoutFindings(errors, warnings) == Len(errors) = 0 /\ Len(warnings) = 0
ReportValid(errors, warnings) == Len(errors) = 0

\* ValidationWorkflowTool.run
ValidateRun(p, clock) ==
    LET errors   == CheckRequiredFields(p)
                      \o CheckPhasesErrors(Get(p, "phases", List(<<>>)))
        warnings == CheckPhasesWarnings(Get(p, "phases", List(<<>>)))
                      \o CheckResources(Get(p, "resources", List(<<>>)))
                      \o CheckValidationGates(Get(p, "validation_gates", List(<<>>)))
    IN [valid        |-> ReportValid(errors, warnings),
        errors       |-> errors,
        warnings     |-> warnings,
        validated_at |-> IsoFormat(clock)]

\* The caller hands the proposal to the validator.
Validate ==
    /\ report = NoReport
    /\ report' = ValidateRun(proposal, now)
    /\ UNCHANGED <<description, generated, proposal, ovVars, thrVars, detVars, audVars>>

(***************************************************************************)
(* SpecValidate: a caller edits a proposal dict and validates it, as the   *)
(* tests do, starting from their _valid_proposal().                        *)
(***************************************************************************)
ValidPhase ==
    Dict([name    |-> Str(<<"Analysis">>),
          steps   |-> List(<<Str(<<"Identify scope">>)>>),
          outputs |-> List(<<Str(<<"scope_doc">>)>>)])
ValidProposal ==
    [title            |-> Str(<<"Test proposal">>),
     phases           |-> List(<<ValidPhase>>),
     resources        |-> List(<<Str(<<"repository_access">>)>>),
     validation_gates |-> List(<<Str(<<"All tests pass">>)>>)]

\* The phase entries the caller may append.
PhaseValues ==
    << ValidPhase,
      Dict([name |-> Str(<<"Execution">>), steps |-> List(<<>>),
            outputs |-> List(<<Str(<<"implementation">>)>>)]),
      Dict([name |-> Str(<<"title">>), outputs |-> List(<<>>)]),
      Dict([steps |-> List(<<Str(<<"Run the relevant test suite.">>)>>)]),
      Str(<<"not a dict">>) >>

\* The values the caller may store under a field.
FieldValues(field) ==
    IF field = "title"
    THEN << Str(<<"Test proposal">>), Str(<<>>), IntValue >>
    ELSE IF field = "phases"
    THEN << List(<<>>), Str(<<"phases">>) >>
    ELSE << List(<<>>), List(<<Str(<<"repository_access">>)>>), NoneValue >>

\* proposal[field] = value
SetField(field, value) ==
    /\ proposal' = [k \in DOMAIN proposal \cup {field} |->
                        IF k = field THEN value ELSE proposal[k]]
    /\ report' = NoReport
    /\ UNCHANGED <<description, generated, ovVars, thrVars, detVars, audVars>>

\* del proposal[field]
DelField(field) ==
    /\ field \in DOMAIN proposal
    /\ proposal' = [k \in DOMAIN proposal \ {field} |-> proposal[k]]
    /\ report' = NoReport
    /\ UNCHANGED <<description, generated, ovVars, thrVars, detVars, audVars>>

\* proposal["phases"].append(phase)
AppendPhase(phase) ==
    /\ "phases" \in DOMAIN proposal
    /\ proposal["phases"].type = "list"
    /\ Len(proposal["phases"].v) < MaxPhases
    /\ proposal' = [proposal EXCEPT !["phases"] = List(Append(@.v, phase))]
    /\ report' = NoReport
    /\ UNCHANGED <<description, generated, ovVars, thrVars, detVars, audVars>>

InitValidate ==
    /\ OverrideInit /\ env = EnvUnset
    /\ ThreadsIdle
    /\ DetectIdle
    /\ description = <<>>
    /\ generated = "none"
    /\ proposal = ValidProposal
    /\ report = NoReport
    /\ AuditIdle

NextValidate ==
    \/ \E field \in DOMAIN ValidProposal :
           \E k \in DOMAIN FieldValues(field) : SetField(field, FieldValues(field)[k])
    \/ \E field \in DOMAIN ValidProposal : DelField(field)
    \/ \E k \in DOMAIN PhaseValues : AppendPhase(PhaseValues[k])
    \/ Validate

SpecValidate == InitValidate /\ [][NextValidate]_vars

(***************************************************************************)
(* ProposalGeneratorTool (proposal_generator.py)                           *)
(***************************************************************************)
\* The characters str.strip() removes.
Whitespace == {" ", "\t", "\n", "\r", "\f"}

\* str.strip()
StrStrip(s) ==
    LET keep == { i \in DOMAIN s : s[i] \notin Whitespace } IN
    IF keep = {} THEN <<>>
    ELSE SubSeq(s, CHOOSE i \in keep : \A j \in keep : i <= j,
                   CHOOSE i \in keep : \A j \in keep : i >= j)

\* s[:n]
Take(s, n) == IF Len(s) <= n THEN s ELSE SubSeq(s, 1, n)

\* `if not task_description or not task_description.strip()`
RejectsOnlyEmpty(task_description) == task_description = <<>>
RejectsDescription(task_description) ==
    task_description = <<>> \/ StrStrip(task_description) = <<>>

\* re.split(r"[.!?\n]", description)[0]
SentenceEnd == {".", "!", "?", "\n"}
FirstSegment(s) ==
    LET ends == { i \in DOMAIN s : s[i] \in SentenceEnd } IN
    IF ends = {} THEN s
    ELSE SubSeq(s, 1, (CHOOSE i \in ends : \A j \in ends : i <= j) - 1)

\* _extract_title
TitleMaxLen == 80
ExtractTitle(desc) ==
    LET first_sentence == StrStrip(FirstSegment(desc)) IN
    IF first_sentence # <<>> THEN Take(first_sentence, TitleMaxLen)
    ELSE Take(desc, TitleMaxLen)

\* _build_phases
BuildPhasesWithoutOutputs(desc) ==
    << Dict([name  |-> Str(<<"Analysis">>),
             steps |-> List(<< Str(<<"Review task description and clarify scope.">>),
                               Str(<<"Identify dependencies and constraints.">>),
                               Str(<<"Document assumptions.">>) >>)]),
       Dict([name  |-> Str(<<"Execution">>),
             steps |-> List(<< Str(<<"Implement the changes described in the task.">>),
                               Str(<<"Write or update tests covering new behaviour.">>),
                               Str(<<"Commit with a descriptive message.">>) >>)]),
       Dict([name  |-> Str(<<"Validation">>),
             steps |-> List(<< Str(<<"Run the relevant test suite.">>),
                               Str(<<"Confirm all validation gates pass.">>),
                               Str(<<"Peer-review or self-review the diff.">>) >>)]) >>
BuildPhases(desc) ==
    << Dict([name    |-> Str(<<"Analysis">>),
             steps   |-> List(<< Str(<<"Review task description and clarify scope.">>),
                                 Str(<<"Identify dependencies and constraints.">>),
                                 Str(<<"Document assumptions.">>) >>),
             outputs |-> List(<< Str(<<"scope_document">>) >>)]),
       Dict([name    |-> Str(<<"Execution">>),
             steps   |-> List(<< Str(<<"Implement the changes described in the task.">>),
                                 Str(<<"Write or update tests covering new behaviour.">>),
                                 Str(<<"Commit with a descriptive message.">>) >>),
             outputs |-> List(<< Str(<<"implementation">>), Str(<<"tests">>) >>)]),
       Dict([name    |-> Str(<<"Validation">>),
             steps   |-> List(<< Str(<<"Run the relevant test suite.">>),
                                 Str(<<"Confirm all validation gates pass.">>),
                                 Str(<<"Peer-review or self-review the diff.">>) >>),
             outputs |-> List(<< Str(<<"validation_report">>) >>)]) >>

\* _infer_resources: the keyword groups and the resource each one adds.
DatabaseKeywords ==
    << <<"d","a","t","a","b","a","s","e">>,
       <<"s","q","l","i","t","e">>,
       <<"p","o","s","t","g","r","e","s">>,
       <<"m","y","s","q","l">> >>
NetworkKeywords ==
    << <<"a","p","i">>,
       <<"h","t","t","p">>,
       <<"r","e","s","t">>,
       <<"e","n","d","p","o","i","n","t">> >>
FilesystemKeywords ==
    << <<"f","i","l","e">>,
       <<"r","e","a","d">>,
       <<"w","r","i","t","e">>,
       <<"d","i","s","k">> >>
InferResourcesCaseSensitive(desc) ==
    << Str(<<"repository_access">>), Str(<<"test_runner">>) >>
      \o (IF AnyIn(DatabaseKeywords, desc)
          THEN << Str(<<"database_access">>) >> ELSE <<>>)
      \o (IF AnyIn(NetworkKeywords, desc)
          THEN << Str(<<"network_access">>) >> ELSE <<>>)
      \o (IF AnyIn(FilesystemKeywords, desc)
          THEN << Str(<<"filesystem_access">>) >> ELSE <<>>)
InferResources(desc) ==
    LET lower == Lower(desc) IN
    << Str(<<"repository_access">>), Str(<<"test_runner">>) >>
      \o (IF AnyIn(DatabaseKeywords, lower)
          THEN << Str(<<"database_access">>) >> ELSE <<>>)
      \o (IF AnyIn(NetworkKeywords, lower)
          THEN << Str(<<"network_access">>) >> ELSE <<>>)
      \o (IF AnyIn(FilesystemKeywords, lower)
          THEN << Str(<<"filesystem_access">>) >> ELSE <<>>)

\* _build_validation_gates
BuildValidationGates(title) ==
    << Str(<<"All tests pass after implementing: ">> \o title),
       Str(<<"No regressions in existing test suite.">>),
       Str(<<"Output matches expected schema.">>),
       Str(<<"No security-policy violations detected.">>) >>

\* ProposalGeneratorTool.run, past the input check
GenerateRun(task_description, clock) ==
    LET desc  == StrStrip(task_description)
        title == ExtractTitle(desc)
    IN [title            |-> Str(title),
        phases           |-> List(BuildPhases(desc)),
        resources        |-> List(InferResources(desc)),
        validation_gates |-> List(BuildValidationGates(title)),
        generated_at     |-> Str(<<IsoFormat(clock)>>)]

(***************************************************************************)
(* SpecGenerate: the pipeline.  A caller puts a task description together, *)
(* hands it to the generator and hands what comes back to the validator.   *)
(***************************************************************************)
\* The pieces a task description is put together from.
DescriptionPieces ==
    { <<" ">>,
      <<"\n">>,
      <<".">>,
      <<"!">>,
      <<"M", "i", "g", "r", "a", "t", "e", " ", "e", "x", "i", "s", "t",
        "i", "n", "g", " ", "s", "q", "l", "i", "t", "e", " ", "d", "a",
        "t", "a", "b", "a", "s", "e", " ", "s", "c", "h", "e", "m", "a">>,
      <<"E", "x", "p", "o", "s", "e", " ", "a", " ", "R", "E", "S", "T",
        " ", "A", "P", "I", " ", "e", "n", "d", "p", "o", "i", "n", "t",
        " ", "f", "o", "r", " ", "h", "e", "a", "l", "t", "h", " ", "c",
        "h", "e", "c", "k", "s">>,
      <<"R", "e", "f", "a", "c", "t", "o", "r", " ", "t", "h", "e", " ",
        "a", "u", "t", "h", "e", "n", "t", "i", "c", "a", "t", "i", "o",
        "n", " ", "m", "o", "d", "u", "l", "e", " ", "f", "o", "r", " ",
        "c", "l", "a", "r", "i", "t", "y">>,
      <<"R", "e", "w", "r", "i", "t", "e", " ", "t", "h", "e", " ", "t",
        "h", "r", "e", "a", "d", " ", "p", "o", "o", "l">>,
      <<"Q", "u", "e", "r", "y", " ", "M", "y", "S", "Q", "L">> }

\* The caller extends the description (or starts a new one after a call).
Describe(f) ==
    /\ IF generated # "none"
       THEN description' = <<f>>
       ELSE /\ Len(description) < MaxDescPieces
            /\ description' = Append(description, f)
    /\ generated' = "none"
    /\ proposal' = <<>>
    /\ report' = NoReport
    /\ UNCHANGED <<ovVars, thrVars, detVars, audVars>>

\* tool.run(task_description): a proposal, or ValueError and no proposal.
Generate ==
    /\ generated = "none"
    /\ LET task_description == Join(description) IN
       IF RejectsDescription(task_description)
       THEN generated' = "ValueError" /\ proposal' = <<>>
       ELSE generated' = "ok" /\ proposal' = GenerateRun(task_description, now)
    /\ UNCHANGED <<description, report, ovVars, thrVars, detVars, audVars>>

\* validator.run(proposal) on the generated proposal
ValidateGenerated == generated = "ok" /\ Validate

InitGenerate ==
    /\ OverrideInit /\ env = EnvUnset
    /\ ThreadsIdle
    /\ DetectIdle
    /\ ProposalIdle
    /\ AuditIdle

NextGenerate ==
    \/ \E f \in DescriptionPieces : Describe(f)
    \/ Generate
    \/ ValidateGenerated

SpecGenerate == InitGenerate /\ [][NextGenerate]_vars

(***************************************************************************)
(* ConstraintAuditTool (constraint_audit.py)                               *)
(* A file of the workspace is [kind, content]: kind "absent", "file", or   *)
(* "unreadable" (the path exists but read_text raises OSError: a directory *)
(* in its place, permissions withdrawn); content is the text, in pieces.   *)
(***************************************************************************)
\* _DECLARED_CONSTRAINTS and _VERIFIABLE_VIA_GUARDRAILS
DECLARED_CONSTRAINTS ==
    << <<"n","o","_","c","r","o","s","s","_","s","t","a","t","e","_","c",
         "o","n","t","e","x","t","_","l","e","a","k","a","g","e">>,
       <<"n","o","_","e","m","o","t","i","o","n","a","l","_","o","u","t",
         "p","u","t","_","i","n","_","o","p","e","r","a","t","i","o","n",
         "a","l","_","s","t","a","t","e">>,
       <<"n","o","_","s","y","s","t","e","m","_","c","o","m","m","a","n",
         "d","s","_","o","u","t","s","i","d","e","_","a","d","m","i","n",
         "i","s","t","r","a","t","i","v","e","_","s","t","a","t","e">>,
       <<"n","o","_","e","x","p","l","i","c","i","t","_","c","o","n","t",
         "e","n","t">> >>
VERIFIABLE_VIA_GUARDRAILS ==
    << <<"n","o","_","e","x","p","l","i","c","i","t","_","c","o","n","t",
         "e","n","t">> >>
BANNED_PATTERNS == <<"B","A","N","N","E","D","_","P","A","T","T","E","R","N","S">>

\* Path.exists()
Exists(file) == file.kind # "absent"

\* `constraint in _VERIFIABLE_VIA_GUARDRAILS`
InList(x, list) == \E k \in DOMAIN list : list[k] = x

\* The status strings of _check_constraint: the status word, then the detail.
\* ("--" stands for the dash U+2014 of the source.)
Active == <<"active">>
Unverifiable(detail) == <<"unverifiable", detail>>
Drift(constraint) ==
    <<"drift", " -- '">> \o constraint \o <<"' not found in agents/ariadne.yaml">>

\* _check_constraint
CheckConstraintSwapped(constraint, yaml, guardrails) ==
    IF ~Exists(yaml)
    THEN Unverifiable(" -- agents/ariadne.yaml missing")
    ELSE IF InList(constraint, VERIFIABLE_VIA_GUARDRAILS)
    THEN IF ~Exists(guardrails)
         THEN Unverifiable(" -- guardrails.ts missing")
         ELSE IF guardrails.kind = "unreadable"
         THEN Unverifiable(" -- could not read guardrails.ts")
         ELSE IF Contains(Join(guardrails.content), BANNED_PATTERNS)
         THEN Active
         ELSE Unverifiable(" -- BANNED_PATTERNS not found in guardrails.ts")
    ELSE IF yaml.kind = "unreadable"
    THEN Unverifiable(" -- could not read agents/ariadne.yaml")
    ELSE IF Contains(Join(yaml.content), constraint)
    THEN Active
    ELSE Drift(constraint)
CheckConstraintNeedsGuardrails(constraint, yaml, guardrails) ==
    IF ~Exists(yaml)
    THEN Unverifiable(" -- agents/ariadne.yaml missing")
    ELSE IF ~Exists(guardrails)
    THEN Unverifiable(" -- guardrails.ts missing")
    ELSE IF InList(constraint, VERIFIABLE_VIA_GUARDRAILS)
    THEN IF guardrails.kind = "unreadable"
         THEN Unverifiable(" -- could not read guardrails.ts")
         ELSE IF Contains(BANNED_PATTERNS, Join(guardrails.content))
         THEN Active
         ELSE Unverifiable(" -- BANNED_PATTERNS not found in guardrails.ts")
    ELSE IF yaml.kind = "unreadable"
    THEN Unverifiable(" -- could not read agents/ariadne.yaml")
    ELSE IF Contains(constraint, Join(yaml.content))
    THEN Active
    ELSE Drift(constraint)
CheckConstraintGuardrailsFirst(constraint, yaml, guardrails) ==
    IF InList(constraint, VERIFIABLE_VIA_GUARDRAILS)
    THEN IF ~Exists(guardrails)
         THEN Unverifiable(" -- guardrails.ts missing")
         ELSE IF guardrails.kind = "unreadable"
         THEN Unverifiable(" -- could not read guardrails.ts")
         ELSE IF Contains(BANNED_PATTERNS, Join(guardrails.content))
         THEN Active
         ELSE Unverifiable(" -- BANNED_PATTERNS not found in guardrails.ts")
    ELSE IF ~Exists(yaml)
    THEN Unverifiable(" -- agents/ariadne.yaml missing")
    ELSE IF yaml.kind = "unreadable"
    THEN Unverifiable(" -- could not read agents/ariadne.yaml")
    ELSE IF Contains(constraint, Join(yaml.content))
    THEN Active
    ELSE Drift(constraint)
CheckConstraint(constraint, yaml, guardrails) ==
    IF ~Exists(yaml)
    THEN Unverifiable(" -- agents/ariadne.yaml missing")
    ELSE IF InList(constraint, VERIFIABLE_VIA_GUARDRAILS)
    THEN IF ~Exists(guardrails)
         THEN Unverifiable(" -- guardrails.ts missing")
         ELSE IF guardrails.kind = "unreadable"
         THEN Unverifiable(" -- could not read guardrails.ts")
         ELSE IF Contains(BANNED_PATTERNS, Join(guardrails.content))
         THEN Active
         ELSE Unverifiable(" -- BANNED_PATTERNS not found in guardrails.ts")
    ELSE IF yaml.kind = "unreadable"
    THEN Unverifiable(" -- could not read agents/ariadne.yaml")
    ELSE IF Contains(constraint, Join(yaml.content))
    THEN Active
    ELSE Drift(constraint)

\* The loop of run(): one record per declared constraint, in order.
AuditResults(yaml, guardrails) ==
    [k \in DOMAIN DECLARED_CONSTRAINTS |->
        [constraint |-> DECLARED_CONSTRAINTS[k],
         status     |-> CheckConstraint(DECLARED_CONSTRAINTS[k], yaml, guardrails)]]

\* `drift = True` whenever a status is not "active"
DriftOnlyOnDrift(results) ==
    \E k \in DOMAIN results : results[k].status[1] = "drift"
DriftDetected(results) ==
    \E k \in DOMAIN results : results[k].status # Active

\* The summary line
AuditSummary(results) ==
    IF ~DriftDetected(results) THEN <<"All constraints active.">>
    ELSE <<ToString(Cardinality({ k \in DOMAIN results :
                                      results[k].status # Active })),
           " constraint(s) require attention.">>

\* ConstraintAuditTool.run
AuditRun(yaml, guardrails, clock) ==
    LET results == AuditResults(yaml, guardrails) IN
    [timestamp      |-> IsoFormat(clock),
     constraints    |-> results,
     drift_detected |-> DriftDetected(results),
     summary        |-> AuditSummary(results)]

(***************************************************************************)
(* SystemDiagnosticsTool (system_diagnostics.py): the constraint section   *)
(* of the snapshot.  The dict is held as its items, in insertion order.    *)
(* The memory, tools and uptime_s sections read collaborator state that    *)
(* is outside this model.                                                  *)
(***************************************************************************)
\* _constraint_status
ConstraintStatus(yaml, guardrails) ==
    [k \in DOMAIN DECLARED_CONSTRAINTS |->
        [constraint |-> DECLARED_CONSTRAINTS[k], status |-> Active]]

\* SystemDiagnosticsTool.run
DiagnosticsRun(yaml, guardrails, clock) ==
    [timestamp       |-> IsoFormat(clock),
     state_stability |-> "stable",
     constraints     |-> ConstraintStatus(yaml, guardrails)]

(***************************************************************************)
(* SpecAudit: the workspace files come, go and change; the auditor and the *)
(* diagnostics tool are called on whatever is there.                       *)
(***************************************************************************)
\* The text written to agents/ariadne.yaml, and to guardrails.ts.
YamlLines ==
    { <<" "," ","-"," ","n","o","_","c","r","o","s","s","_","s","t","a",
        "t","e","_","c","o","n","t","e","x","t","_","l","e","a","k","a",
        "g","e","\n">>,
      <<" "," ","-"," ","n","o","_","e","m","o","t","i","o","n","a","l",
        "_","o","u","t","p","u","t","_","i","n","_","o","p","e","r","a",
        "t","i","o","n","a","l","_","s","t","a","t","e","\n">>,
      <<" "," ","-"," ","n","o","_","s","y","s","t","e","m","_","c","o",
        "m","m","a","n","d","s","_","o","u","t","s","i","d","e","_","a",
        "d","m","i","n","i","s","t","r","a","t","i","v","e","_","s","t",
        "a","t","e","\n">>,
      <<" "," ","-"," ","n","o","_","e","x","p","l","i","c","i","t","_",
        "c","o","n","t","e","n","t","\n">>,
      <<" "," ","-"," ","n","o","_","e","m","o","t","i","o","n","a","l",
        "_","o","u","t","p","u","t","\n">> }
GuardrailsLines ==
    { <<"e","x","p","o","r","t"," ","c","o","n","s","t"," ","B","A","N",
        "N","E","D","_","P","A","T","T","E","R","N","S"," ","="," ","[",
        "\n">>,
      <<"c","o","n","s","t"," ","b","a","n","n","e","d","_","p","a","t",
        "t","e","r","n","s"," ","="," ","[","]",";","\n">>,
      <<"e","x","p","o","r","t"," ","{","}",";","\n">> }

\* A change of the files outdates the reports on hand.
ReportsOutdated ==
    /\ auditReport' = NoAudit
    /\ diagnostics' = NoDiagnostics

WriteYaml(line) ==
    /\ agentYaml.kind # "unreadable"
    /\ Len(agentYaml.content) < MaxYamlLines
    /\ agentYaml' = [kind |-> "file", content |-> Append(agentYaml.content, line)]
    /\ ReportsOutdated
    /\ UNCHANGED <<guardrailsTs, ovVars, thrVars, detVars, propVars>>

RemoveYaml ==
    /\ Exists(agentYaml)
    /\ agentYaml' = AbsentFile
    /\ ReportsOutdated
    /\ UNCHANGED <<guardrailsTs, ovVars, thrVars, detVars, propVars>>

ObstructYaml ==
    /\ agentYaml.kind # "unreadable"
    /\ agentYaml' = [kind |-> "unreadable", content |-> <<>>]
    /\ ReportsOutdated
    /\ UNCHANGED <<guardrailsTs, ovVars, thrVars, detVars, propVars>>

WriteGuardrails(line) ==
    /\ guardrailsTs.kind # "unreadable"
    /\ Len(guardrailsTs.content) < MaxGuardrailsLines
    /\ guardrailsTs' = [kind |-> "file",
                        content |-> Append(guardrailsTs.content, line)]
    /\ ReportsOutdated
    /\ UNCHANGED <<agentYaml, ovVars, thrVars, detVars, propVars>>

RemoveGuardrails ==
    /\ Exists(guardrailsTs)
    /\ guardrailsTs' = AbsentFile
    /\ ReportsOutdated
    /\ UNCHANGED <<agentYaml, ovVars, thrVars, detVars, propVars>>

ObstructGuardrails ==
    /\ guardrailsTs.kind # "unreadable"
    /\ guardrailsTs' = [kind |-> "unreadable", content |-> <<>>]
    /\ ReportsOutdated
    /\ UNCHANGED <<agentYaml, ovVars, thrVars, detVars, propVars>>

\* ConstraintAuditTool(workspace).run()
Audit ==
    /\ auditReport = NoAudit
    /\ auditReport' = AuditRun(agentYaml, guardrailsTs, now)
    /\ UNCHANGED <<agentYaml, guardrailsTs, diagnostics,
                   ovVars, thrVars, detVars, propVars>>

\* SystemDiagnosticsTool(workspace).run()
Diagnose ==
    /\ diagnostics = NoDiagnostics
    /\ diagnostics' = DiagnosticsRun(agentYaml, guardrailsTs, now)
    /\ UNCHANGED <<agentYaml, guardrailsTs, auditReport,
                   ovVars, thrVars, detVars, propVars>>

InitAudit ==
    /\ OverrideInit /\ env = EnvUnset
    /\ ThreadsIdle
    /\ DetectIdle
    /\ ProposalIdle
    /\ AuditIdle

NextAudit ==
    \/ \E line \in YamlLines : WriteYaml(line)
    \/ RemoveYaml
    \/ ObstructYaml
    \/ \E line \in GuardrailsLines : WriteGuardrails(line)
    \/ RemoveGuardrails
    \/ ObstructGuardrails
    \/ Audit
    \/ Diagnose

SpecAudit == InitAudit /\ [][NextAudit]_vars

(***************************************************************************)
(* Vocabulary of the properties.                                           *)
(***************************************************************************)
\* The value of a hexadecimal digit, -1 for any other character.
HexDigitValue(c) ==
    CASE c = "0" -> 0 [] c = "1" -> 1 [] c = "2" -> 2 [] c = "3" -> 3
      [] c = "4" -> 4 [] c = "5" -> 5 [] c = "6" -> 6 [] c = "7" -> 7
      [] c = "8" -> 8 [] c = "9" -> 9
      [] c \in {"a", "A"} -> 10 [] c \in {"b", "B"} -> 11
      [] c \in {"c", "C"} -> 12 [] c \in {"d", "D"} -> 13
      [] c \in {"e", "E"} -> 14 [] c \in {"f", "F"} -> 15
      [] OTHER -> -1

\* Two hex strings denote the same digest.
SameDigest(a, b) ==
    /\ Len(a) = Len(b)
    /\ \A i \in 1..Len(a) :
           HexDigitValue(a[i]) >= 0 /\ HexDigitValue(a[i]) = HexDigitValue(b[i])

\* No reference digest is configured: the variable is unset or empty.
NoDigestConfigured == ~env.set \/ env.value = <<>>

\* The configured reference digest is the SHA-256 digest of the token.
TokenMatches(token) ==
    ~NoDigestConfigured /\ SameDigest(Sha256Hex(token), env.value)

\* This step is a call of run(); its arguments are in last'.
CallStep == calls' = calls + 1

IsPrefix(s, t) == Len(s) <= Len(t) /\ SubSeq(t, 1, Len(s)) = s

\* The step leaves the old content of the log in place and adds text that
\* the reader takes for exactly one record: an audit record of the given
\* event, target and outcome.
AppendsOne(event, target, outcome) ==
    /\ IsPrefix(notes, notes')
    /\ LET added == Records(SubSeq(notes', Len(notes) + 1, Len(notes'))) IN
       /\ Len(added) = 1
       /\ IsAuditRecord(added[1])
       /\ RecordEvent(added[1]) = event
       /\ RecordTarget(added[1]) = target
       /\ RecordOutcome(added[1]) = outcome

LastRecord == LET records == Records(notes) IN records[Len(records)]

(***************************************************************************)
(* Properties of the override gateway.                                     *)
(***************************************************************************)

\* C1: with no reference digest configured (variable unset or empty), run()
\* with a valid target returns status "error" for every token, also for a
\* token that an earlier call accepted while its digest was configured.
C1_FailClosed ==
    [][ (CallStep /\ last'.target \in Modes /\ NoDigestConfigured)
            => (ret'.kind = "return" /\ ret'.status = "error") ]_vars

C1_Witness ==
    /\ NoDigestConfigured
    /\ last.target \in Modes
    /\ last.token \in accepted
    /\ ret.kind = "return" /\ ret.status = "error"
    /\ Len(Records(notes)) >= 2
    /\ RecordEvent(LastRecord) = "OVERRIDE_REJECTED"

\* C2: run() with a valid target and a token whose SHA-256 digest is the
\* configured reference digest returns status "ok" and appends exactly one
\* audit entry, of kind OVERRIDE_APPLIED, naming that target.
C2_CorrectTokenApplied ==
    [][ (CallStep /\ last'.target \in Modes /\ TokenMatches(last'.token))
            => /\ ret'.kind = "return" /\ ret'.status = "ok"
               /\ AppendsOne("OVERRIDE_APPLIED", last'.target, "authorized") ]_vars

C2_Witness ==
    /\ ret.kind = "return" /\ ret.status = "ok"
    /\ last.target = "companion"
    /\ TokenMatches(last.token)
    /\ Len(Records(notes)) = 1
    /\ RecordEvent(LastRecord) = "OVERRIDE_APPLIED"
    /\ RecordTarget(LastRecord) = "companion"

\* C3: run() with a valid target and a token whose digest differs from the
\* configured reference digest returns status "error" and appends exactly
\* one audit entry, of kind OVERRIDE_REJECTED, with that target and outcome
\* "invalid token"; no OVERRIDE_APPLIED entry is appended.
C3_WrongTokenRejected ==
    [][ (CallStep /\ last'.target \in Modes
           /\ ~NoDigestConfigured /\ ~TokenMatches(last'.token))
            => /\ ret'.kind = "return" /\ ret'.status = "error"
               /\ AppendsOne("OVERRIDE_REJECTED", last'.target, "invalid token")
               /\ \A i \in (Len(notes) + 1)..Len(notes') :
                      notes'[i] # <<"EVENT: ", "OVERRIDE_APPLIED", "  ">> ]_vars

C3_Witness ==
    /\ ret.kind = "return" /\ ret.status = "error"
    /\ last.target = "operational"
    /\ last.token = "wrong-token"
    /\ ~NoDigestConfigured /\ ~TokenMatches(last.token)
    /\ calls = 1
    /\ Len(Records(notes)) = 1
    /\ RecordEvent(LastRecord) = "OVERRIDE_REJECTED"
    /\ RecordOutcome(LastRecord) = "invalid token"

\* C4: run() with a target that is not one of the three modes returns status
\* "error" and leaves the audit log unchanged, whatever the token, the
\* correct one included.
C4_UnknownStateNoAudit ==
    [][ (CallStep /\ last'.target \notin Modes)
            => /\ ret'.kind = "return" /\ ret'.status = "error"
               /\ ret'.message = "Unknown state"
               /\ notes' = notes ]_vars

C4_Witness ==
    /\ last.target = "unknown_state"
    /\ TokenMatches(last.token)
    /\ ret.kind = "return" /\ ret.status = "error"
    /\ calls = 1
    /\ notes = <<>>

\* C5: after any sequence of run() calls the audit log holds as many entries
\* as there were calls with a valid target.
C5_OneEntryPerValidCall ==
    LET records == Records(notes) IN
    /\ Len(records) = validCalls
    /\ \A i \in 1..Len(records) : IsAuditRecord(records[i])

C5_Witness ==
    LET records == Records(notes) IN
    /\ calls = MaxCalls
    /\ validCalls >= 1
    /\ calls > validCalls
    /\ Len(records) = validCalls
    /\ last.target \notin Modes

\* C6: the audit log is append-only: its content before any step is a prefix
\* of its content after the step.
C6_AppendOnly == [][ IsPrefix(notes, notes') ]_vars

C6_Witness ==
    /\ Len(Records(notes)) >= 2
    /\ calls >= 2

\* C7: audit entries are in strictly increasing timestamp order.
C7_StrictlyIncreasingTimestamps ==
    LET records == Records(notes) IN
    \A i, j \in 1..Len(records) :
        i < j => RecordTimestamp(records[i]) < RecordTimestamp(records[j])

\* C8: appends are serialized: at most one call is between reading its
\* timestamp and finishing its write, and the entries lie in the file in the
\* order of their timestamps.
C8_AppendsSerialized ==
    /\ Cardinality({t \in Threads : pc[t] = "write"}) <= 1
    /\ LET records == Records(notes) IN
       \A i, j \in 1..Len(records) :
           i < j => RecordTimestamp(records[i]) <= RecordTimestamp(records[j])

\* C9: run() never raises: every call ends by returning status "ok" or
\* "error", also when the log directory or file cannot be written.
C9_NeverRaises ==
    calls > 0 => (ret.kind = "return" /\ ret.status \in {"ok", "error"})

(***************************************************************************)
(* Properties of detect_mode_switch.                                       *)
(***************************************************************************)
HasAdministrativePhrase(pieces) == AnyIn(ADMINISTRATIVE_PHRASES, Lower(Join(pieces)))
HasCompanionPhrase(pieces) == AnyIn(COMPANION_PHRASES, Lower(Join(pieces)))
HasTaskIndicator(pieces) == AnyIn(TASK_INDICATORS, Lower(Join(pieces)))

\* C10: for every text that contains an administrative-activation phrase
\* (in any letter case) and every current mode, detect returns
\* "administrative", also when the text holds a companion phrase or a task
\* keyword as well.
C10_AdministrativeWins ==
    (detected /\ HasAdministrativePhrase(text)) => mode = "administrative"

C10_Witness ==
    /\ detected
    /\ HasAdministrativePhrase(text)
    /\ HasCompanionPhrase(text)
    /\ HasTaskIndicator(text)
    /\ current = "companion"
    /\ mode = "administrative"

\* C11: detect is total and deterministic: the mode a call leaves is the value
\* of the function at (text, current mode) and is one of the three modes, so
\* a mode that starts valid and is only replaced by detect results stays one
\* of the three modes after any sequence of inputs.
C11_ModeAlwaysValid ==
    /\ mode \in Modes
    /\ current \in Modes
    /\ detected => mode = detect_mode_switch(Join(text), current)

C11_Witness ==
    /\ detected
    /\ Len(text) = MaxFragments
    /\ ~HasAdministrativePhrase(text) /\ ~HasCompanionPhrase(text)
    /\ ~HasTaskIndicator(text)
    /\ current = "administrative"
    /\ mode \in Modes

\* C12: for every text that contains no administrative phrase, no companion
\* phrase and no task-indicator keyword, detect returns the current mode
\* unchanged, for each of the three current modes.
C12_NoMatchKeepsMode ==
    (detected /\ ~HasAdministrativePhrase(text) /\ ~HasCompanionPhrase(text)
        /\ ~HasTaskIndicator(text))
      => mode = current

C12_Witness ==
    /\ detected
    /\ text # <<>>
    /\ ~HasAdministrativePhrase(text) /\ ~HasCompanionPhrase(text)
    /\ ~HasTaskIndicator(text)
    /\ current = "companion"
    /\ mode = "companion"

\* C13: for every text that contains a companion-activation phrase and no
\* administrative phrase, detect returns "companion" from any current mode,
\* also when the text holds a task-indicator keyword; a task-indicator
\* keyword yields "operational" when neither kind of phrase is present.
C13_CompanionBeforeTask ==
    /\ (detected /\ HasCompanionPhrase(text) /\ ~HasAdministrativePhrase(text))
          => mode = "companion"
    /\ (detected /\ HasTaskIndicator(text) /\ ~HasCompanionPhrase(text)
          /\ ~HasAdministrativePhrase(text))
          => mode = "operational"

C13_Witness ==
    /\ detected
    /\ HasCompanionPhrase(text)
    /\ HasTaskIndicator(text)
    /\ ~HasAdministrativePhrase(text)
    /\ current = "administrative"
    /\ mode = "companion"

(***************************************************************************)
(* Vocabulary of the validator's properties.                               *)
(***************************************************************************)
\* The report on hand is the validator's report on the current proposal.
Validated == report.validated_at # ""

\* The message names the field.
Mentions(message, field) == \E k \in DOMAIN message : message[k] = field

\* The errors of the report that name the field.
ErrorsNaming(field) ==
    { k \in DOMAIN report.errors : Mentions(report.errors[k], field) }

\* A phase entry as the schema wants it: a dict with the three keys.
WellFormedPhase(phase) ==
    /\ phase.type = "dict"
    /\ \A k \in DOMAIN PHASE_REQUIRED_KEYS :
           PHASE_REQUIRED_KEYS[k] \in DOMAIN phase.v

\* The field is present with its type and content as the schema wants it.
WellFormedField(p, field) ==
    /\ field \in DOMAIN p
    /\ p[field].type = ExpectedType(field)
    /\ p[field].v # <<>>
    /\ field = "phases" =>
           \A k \in DOMAIN p[field].v : WellFormedPhase(p[field].v[k])

\* Every required field but the given one is well-formed.
WellFormedBut(p, field) ==
    \A k \in DOMAIN REQUIRED_FIELDS :
        REQUIRED_FIELDS[k] # field => WellFormedField(p, REQUIRED_FIELDS[k])

\* The field holds an empty list.
IsEmptyList(p, field) ==
    field \in DOMAIN p /\ p[field].type = "list" /\ p[field].v = <<>>

\* C16: in every report of validate, valid is true if and only if the errors
\* list is empty; warnings, however many, never change valid.
C16_ValidIffNoErrors ==
    Validated => (report.valid <=> report.errors = <<>>)

C16_Witness ==
    /\ Validated
    /\ report.valid
    /\ report.errors = <<>>
    /\ Len(report.warnings) >= 1

\* C17: validate on a proposal that lacks a required field reports
\* valid = false and exactly one error that names the field; with several
\* fields missing there is one such error for each missing field.
C17_OneErrorPerMissingField ==
    Validated =>
        \A k \in DOMAIN REQUIRED_FIELDS :
            REQUIRED_FIELDS[k] \notin DOMAIN proposal =>
                /\ ~report.valid
                /\ Cardinality(ErrorsNaming(REQUIRED_FIELDS[k])) = 1

C17_Witness ==
    /\ Validated
    /\ "title" \notin DOMAIN proposal
    /\ "validation_gates" \notin DOMAIN proposal
    /\ "phases" \in DOMAIN proposal /\ "resources" \in DOMAIN proposal
    /\ ~report.valid
    /\ Cardinality(ErrorsNaming("title")) = 1
    /\ Cardinality(ErrorsNaming("validation_gates")) = 1

\* C18: a proposal whose resources (or validation_gates) field is an empty
\* list and whose other fields are well-formed gets a warning for the field
\* and no error, so its report has valid = true.
C18_EmptyListOnlyWarns ==
    /\ (Validated /\ IsEmptyList(proposal, "resources")
            /\ WellFormedBut(proposal, "resources"))
         => /\ \E k \in DOMAIN report.warnings :
                   report.warnings[k] = NoResourcesWarning
            /\ report.errors = <<>>
            /\ report.valid
    /\ (Validated /\ IsEmptyList(proposal, "validation_gates")
            /\ WellFormedBut(proposal, "validation_gates"))
         => /\ \E k \in DOMAIN report.warnings :
                   report.warnings[k] = NoGatesWarning
            /\ report.errors = <<>>
            /\ report.valid

\* C19: validate on a proposal whose title is the empty string, its other
\* fields well-formed, reports an error for title and valid = false.
C19_EmptyTitleRejected ==
    (Validated /\ "title" \in DOMAIN proposal
        /\ proposal["title"].type = "str" /\ proposal["title"].v = <<>>
        /\ WellFormedBut(proposal, "title"))
      => /\ ErrorsNaming("title") # {}
         /\ ~report.valid

\* C20: a proposal whose phases field is an empty list is reported invalid,
\* whatever its other fields contain.
C20_NoPhasesInvalid ==
    (Validated /\ IsEmptyList(proposal, "phases")) => ~report.valid

C20_Witness ==
    /\ Validated
    /\ IsEmptyList(proposal, "phases")
    /\ WellFormedBut(proposal, "phases")
    /\ ~report.valid
    /\ Len(report.errors) = 1

(***************************************************************************)
(* Vocabulary of the generator's properties.                               *)
(***************************************************************************)
\* The text is empty or holds whitespace only.
IsBlank(s) == \A i \in DOMAIN s : s[i] \in Whitespace

\* The generator has been called on the description.
GeneratorCalled == generated # "none"

\* The pipeline's report says valid with no errors.
ReportClean == report.valid /\ report.errors = <<>>

\* C14 as stated: for every non-empty description, generate returns a
\* proposal and validate reports it valid = true with an empty error list.
C14_RoundTripNonEmpty ==
    (GeneratorCalled /\ Join(description) # <<>>)
      => /\ generated = "ok"
         /\ Validated => ReportClean

\* C14: for every description that is neither empty nor whitespace-only,
\* generate returns a proposal and validate reports that proposal
\* valid = true with an empty error list.
C14_RoundTripNonBlank ==
    (GeneratorCalled /\ ~IsBlank(Join(description)))
      => /\ generated = "ok"
         /\ Validated => ReportClean

C14_Witness ==
    /\ Validated
    /\ ~IsBlank(Join(description))
    /\ Len(Join(description)) > TitleMaxLen
    /\ Len(proposal["title"].v) = TitleMaxLen
    /\ ReportClean

\* C15: generate fails with an input-validation error and produces no
\* proposal exactly when the description is empty or whitespace-only; for
\* every other description it returns a proposal.
C15_RejectsExactlyBlank ==
    GeneratorCalled =>
        /\ generated = "ValueError" <=> IsBlank(Join(description))
        /\ generated = "ValueError" => DOMAIN proposal = {}
        /\ generated = "ok" => DOMAIN proposal # {}

C15_Witness ==
    /\ generated = "ValueError"
    /\ Len(description) >= 2
    /\ IsBlank(Join(description))
    /\ DOMAIN proposal = {}

\* The phase carries its three keys and its steps sequence is an empty list.
HasEmptySteps(phase) ==
    /\ WellFormedPhase(phase)
    /\ phase.v["steps"].type = "list"
    /\ phase.v["steps"].v = <<>>

\* The warning is about phase number i (counted from 0).
WarnsAboutPhase(warning, i) ==
    /\ Len(warning) >= 2
    /\ warning[1] = "Phase["
    /\ warning[2] = ToString(i)

\* C21: a phase that carries name, steps and outputs but whose steps
\* sequence is empty gets a warning for that phase and no error: a proposal
\* whose only defect is an empty steps list stays valid, with a warning.
C21_EmptyStepsOnlyWarns ==
    (Validated /\ WellFormedBut(proposal, "none"))
      => \A k \in DOMAIN proposal["phases"].v :
             HasEmptySteps(proposal["phases"].v[k])
               => /\ report.valid
                  /\ report.errors = <<>>
                  /\ \E w \in DOMAIN report.warnings :
                         WarnsAboutPhase(report.warnings[w], k - 1)

C21_Witness ==
    /\ Validated
    /\ WellFormedBut(proposal, "none")
    /\ Len(proposal["phases"].v) = 2
    /\ ~HasEmptySteps(proposal["phases"].v[1])
    /\ HasEmptySteps(proposal["phases"].v[2])
    /\ report.valid
    /\ Len(report.warnings) = 1
    /\ WarnsAboutPhase(report.warnings[1], 1)

\* The positions of the generated resources list that hold the identifier.
ResourcePositions(id) ==
    { k \in DOMAIN proposal["resources"].v :
          proposal["resources"].v[k] = Str(<<id>>) }

\* The lower-cased description contains a keyword of the group.
MentionsKeyword(keywords) == AnyIn(keywords, Lower(Join(description)))

\* C26: the resources list of generate begins with repository access and
\* test runner, and contains the database-access identifier exactly when
\* the lower-cased description contains a database keyword, the
\* network-access identifier exactly when it contains a network/API keyword,
\* the filesystem-access identifier exactly when it contains a file/disk
\* keyword; no identifier appears twice.
C26_ResourcesFollowKeywords ==
    generated = "ok" =>
        /\ proposal["resources"].type = "list"
        /\ Len(proposal["resources"].v) >= 2
        /\ proposal["resources"].v[1] = Str(<<"repository_access">>)
        /\ proposal["resources"].v[2] = Str(<<"test_runner">>)
        /\ ResourcePositions("database_access") # {}
              <=> MentionsKeyword(DatabaseKeywords)
        /\ ResourcePositions("network_access") # {}
              <=> MentionsKeyword(NetworkKeywords)
        /\ ResourcePositions("filesystem_access") # {}
              <=> MentionsKeyword(FilesystemKeywords)
        /\ \A id \in {"repository_access", "test_runner", "database_access",
                      "network_access", "filesystem_access"} :
               Cardinality(ResourcePositions(id)) <= 1
        /\ Len(proposal["resources"].v) =
               Cardinality({ id \in {"repository_access", "test_runner",
                                     "database_access", "network_access",
                                     "filesystem_access"} :
                                 ResourcePositions(id) # {} })

C26_Witness ==
    /\ generated = "ok"
    /\ MentionsKeyword(DatabaseKeywords)
    /\ MentionsKeyword(NetworkKeywords)
    /\ ~MentionsKeyword(FilesystemKeywords)
    /\ Len(proposal["resources"].v) = 4
    /\ ResourcePositions("database_access") = {3}
    /\ ResourcePositions("network_access") = {4}

(***************************************************************************)
(* Vocabulary of the auditor's properties.                                 *)
(***************************************************************************)
\* The reports on hand are about the current files of the workspace.
Audited == auditReport.timestamp # ""
Diagnosed == diagnostics.timestamp # ""

\* The status word of the k-th record of the audit: active, drift or
\* unverifiable.
StatusWord(k) == auditReport.constraints[k].status[1]

\* A delegated constraint is checked through guardrails.ts, a direct one
\* against the configuration text.
IsDelegated(constraint) == InList(constraint, VERIFIABLE_VIA_GUARDRAILS)

\* The configuration document is there to read and holds the name literal.
ConfigReadable == agentYaml.kind = "file"
ConfigNames(constraint) ==
    ConfigReadable /\ Contains(constraint, Join(agentYaml.content))
ConfigNamesAll ==
    \A k \in DOMAIN DECLARED_CONSTRAINTS : ConfigNames(DECLARED_CONSTRAINTS[k])

\* The collaborator artifact is there to read and holds the marker token.
ArtifactHasMarker ==
    /\ guardrailsTs.kind = "file"
    /\ Contains(BANNED_PATTERNS, Join(guardrailsTs.content))

AllActive ==
    /\ ~auditReport.drift_detected
    /\ \A k \in DOMAIN auditReport.constraints : StatusWord(k) = "active"

\* C22 as stated: audit() against a configuration document that contains
\* the name literal of every declared constraint yields driftDetected =
\* false, with every constraint reported active.
C22_AllNamedAllActive ==
    (Audited /\ ConfigNamesAll) => AllActive

\* C22: audit() against a readable configuration document that contains the
\* name literal of every declared constraint, with the delegated
\* collaborator artifact present, readable and holding its marker token,
\* yields driftDetected = false, with every constraint reported active.
C22_AllNamedAndMarkedAllActive ==
    (Audited /\ ConfigNamesAll /\ ArtifactHasMarker) => AllActive

C22_Witness ==
    /\ Audited
    /\ ConfigNamesAll
    /\ ArtifactHasMarker
    /\ AllActive
    /\ auditReport.summary = <<"All constraints active.">>

\* C23: audit() with the configuration document absent yields
\* driftDetected = true and status unverifiable for every declared
\* constraint, direct and delegated, whether or not the delegated
\* collaborator artifact exists.
C23_AbsentConfigAllUnverifiable ==
    (Audited /\ ~Exists(agentYaml))
      => /\ auditReport.drift_detected
         /\ \A k \in DOMAIN DECLARED_CONSTRAINTS : StatusWord(k) = "unverifiable"

C23_Witness ==
    /\ Audited
    /\ ~Exists(agentYaml)
    /\ ArtifactHasMarker
    /\ auditReport.drift_detected
    /\ \A k \in DOMAIN DECLARED_CONSTRAINTS : StatusWord(k) = "unverifiable"

\* C24: in every audit() result, driftDetected is true if and only if some
\* constraint's status differs from active, and the result lists exactly
\* one record per declared constraint, in registry order.
C24_DriftIffNotAllActive ==
    Audited =>
        /\ auditReport.drift_detected
              <=> \E k \in DOMAIN auditReport.constraints : StatusWord(k) # "active"
        /\ Len(auditReport.constraints) = Len(DECLARED_CONSTRAINTS)
        /\ \A k \in DOMAIN DECLARED_CONSTRAINTS :
               auditReport.constraints[k].constraint = DECLARED_CONSTRAINTS[k]

C24_Witness ==
    /\ Audited
    /\ ConfigReadable
    /\ guardrailsTs.kind = "file" /\ ~ArtifactHasMarker
    /\ auditReport.drift_detected
    /\ \A k \in DOMAIN DECLARED_CONSTRAINTS : StatusWord(k) # "drift"
    /\ \E k \in DOMAIN DECLARED_CONSTRAINTS : StatusWord(k) = "unverifiable"
    /\ \E k \in DOMAIN DECLARED_CONSTRAINTS : StatusWord(k) = "active"

\* C25: the constraint section of the diagnostics snapshot is the audit
\* result for the current workspace state: a constraint that audit()
\* reports as drift or unverifiable is not reported active by diagnostics.
C25_DiagnosticsAgreeWithAudit ==
    (Audited /\ Diagnosed)
      => \A k \in DOMAIN DECLARED_CONSTRAINTS :
             StatusWord(k) # "active"
               => \A j \in DOMAIN diagnostics.constraints :
                      diagnostics.constraints[j].constraint = DECLARED_CONSTRAINTS[k]
                        => diagnostics.constraints[j].status[1] # "active"

\* C27: for a direct constraint, with the configuration document present
\* and readable, audit() reports active if the name literal occurs in the
\* configuration text and drift otherwise, never unverifiable, whatever the
\* state of the delegated collaborator artifact.
C27_DirectFollowsConfig ==
    (Audited /\ ConfigReadable)
      => \A k \in DOMAIN DECLARED_CONSTRAINTS :
             ~IsDelegated(DECLARED_CONSTRAINTS[k])
               => StatusWord(k) = IF ConfigNames(DECLARED_CONSTRAINTS[k])
                                  THEN "active" ELSE "drift"

C27_Witness ==
    /\ Audited
    /\ ConfigReadable
    /\ ~Exists(guardrailsTs)
    /\ StatusWord(1) = "active"
    /\ StatusWord(2) = "drift"
    /\ ~ConfigNames(DECLARED_CONSTRAINTS[3]) /\ StatusWord(3) = "drift"
    /\ ConfigNames(DECLARED_CONSTRAINTS[4]) /\ StatusWord(4) = "unverifiable"

\* The records of the given event kind, in log order.
RecordsOfKind(records, kind) ==
    SelectSeq(records, LAMBDA r : RecordEvent(r) = kind)

\* C28: writer and reader agree on the log format: a call that appends an
\* entry leaves the reader (split on the "---" separator line) with the
\* records it had before, in their order, and one more record, which is the
\* entry of this call; the log that started absent then holds one record
\* per appended entry, and a query for an event kind returns exactly the
\* records of that kind, one per entry, none merged.
C28_ReaderRecoversEntries ==
    [][ (CallStep /\ last'.target \in Modes)
          => LET before == Records(notes)
                 after  == Records(notes')
             IN /\ Len(after) = Len(before) + 1
                /\ Len(after) = validCalls'
                /\ SubSeq(after, 1, Len(before)) = before
                /\ IsAuditRecord(after[Len(after)])
                /\ RecordTarget(after[Len(after)]) = last'.target
                /\ \A kind \in {"OVERRIDE_APPLIED", "OVERRIDE_REJECTED"} :
                       Search(notes', kind) = RecordsOfKind(after, kind)
                /\ Len(Search(notes', "OVERRIDE_APPLIED"))
                     + Len(Search(notes', "OVERRIDE_REJECTED")) = Len(after) ]_vars

C28_Witness ==
    LET records == Records(notes) IN
    /\ validCalls = 2
    /\ Len(records) = 2
    /\ RecordEvent(records[1]) = "OVERRIDE_REJECTED"
    /\ RecordEvent(records[2]) = "OVERRIDE_APPLIED"
    /\ Search(notes, "OVERRIDE_APPLIED") = <<records[2]>>
    /\ Search(notes, "OVERRIDE_REJECTED") = <<records[1]>>

\* The status the gateway owes a call, from the target, the credential and
\* the configured digest alone.
StatusFor(target, token) ==
    IF target \in Modes /\ TokenMatches(token) THEN "ok" ELSE "error"

\* C29: the gateway keeps no state between calls: the status a call returns
\* is a function of the target, the credential and the configured digest,
\* not of the content of the log or of earlier calls; on a writable log
\* every call returns, so after rejected attempts a call with a valid target
\* and the correct credential returns ok, and a credential that does not
\* match the digest is rejected on every attempt.
C29_StatelessGateway ==
    [][ CallStep
          => /\ ret'.kind = "return"
                  => ret'.status = StatusFor(last'.target, last'.token)
             /\ fsOK => ret'.kind = "return" ]_vars

C29_Witness ==
    LET records == Records(notes) IN
    /\ calls = 2
    /\ Len(records) = 2
    /\ RecordEvent(records[1]) = "OVERRIDE_REJECTED"
    /\ last.target \in Modes
    /\ TokenMatches(last.token)
    /\ ret.kind = "return" /\ ret.status = "ok"

\* C30: audit precedes result: when run() returns status ok, the log ends
\* with the OVERRIDE_APPLIED entry of this call, naming its target; a call
\* that leaves the log as it was (the append did not complete) does not
\* return ok.
C30_AuditPrecedesResult ==
    [][ CallStep
          => /\ (ret'.kind = "return" /\ ret'.status = "ok")
                  => /\ AppendsOne("OVERRIDE_APPLIED", last'.target, "authorized")
                     /\ LET records == Records(notes') IN
                        /\ records # <<>>
                        /\ RecordEvent(records[Len(records)]) = "OVERRIDE_APPLIED"
                        /\ RecordTarget(records[Len(records)]) = last'.target
             /\ notes' = notes
                  => ~(ret'.kind = "return" /\ ret'.status = "ok") ]_vars

C30_Witness ==
    /\ calls = 2
    /\ validCalls = 2
    /\ Len(Records(notes)) = 1
    /\ ret.kind = "return" /\ ret.status = "ok"
    /\ RecordEvent(LastRecord) = "OVERRIDE_APPLIED"
    /\ RecordTarget(LastRecord) = last.target

====
